---- MODULE Spec2Model ----
\* One party's signing session (wrapper/wasm-ll/src/sign_ot_variant.rs):
\* the round cursor of SignSessionOTVariant, the protocol-engine state it owns,
\* and the operations the caller drives it with.
EXTENDS Integers, Sequences, FiniteSets, TLC

\* ------------------------------------------------------------------ bounds
NParties == 3
NumRng == 2
NumDigest == 2
MaxRestores == 1

\* --------------------------------------------------------------- constants
HashLen == 32
PartyId == 1

None == 0
Parties == 1..NParties
Peers(p) == Parties \ {p}
Rngs == 1..NumRng
Seeds == {None} \cup Rngs
DigestLens == {0, HashLen - 1, HashLen, HashLen + 1}
Digests == [len : DigestLens, val : 1..NumDigest]

\* --------------------------------------------------- protocol messages
\* Typed protocol messages of the engine (dkls23_ll::dsg_ot_variant / dsg).
SignMsg1(from) == [kind |-> 1, from_id |-> from]
SignMsg2(from, to) == [kind |-> 2, from_id |-> from, to_id |-> to]
SignMsg3(from, to) == [kind |-> 3, from_id |-> from, to_id |-> to]
SignMsg4(from, v, sh) ==
    [kind |-> 4, from_id |-> from, val |-> v, share |-> sh]

\* impl MessageRouting for SignMsg1 / SignMsg2 / SignMsg3
src_party_id(m) == m.from_id

\* A slip in the routing of SignMsg1: the sender named as destination.
dst_party_id_Msg1Unicast(m) ==
    CASE m.kind = 1 -> m.from_id
      [] m.kind = 2 -> m.to_id
      [] m.kind = 3 -> m.to_id
      [] OTHER -> None

\* A slip in the routing of SignMsg3: sent as a broadcast.
dst_party_id_Msg3Broadcast(m) ==
    CASE m.kind = 1 -> None
      [] m.kind = 2 -> m.to_id
      [] m.kind = 3 -> None
      [] OTHER -> None

\* A slip in the routing of SignMsg2: sent as a broadcast.
dst_party_id_Msg2Broadcast(m) ==
    CASE m.kind = 1 -> None
      [] m.kind = 2 -> None
      [] m.kind = 3 -> m.to_id
      [] OTHER -> None

dst_party_id(m) ==
    CASE m.kind = 1 -> None
      [] m.kind = 2 -> m.to_id
      [] m.kind = 3 -> m.to_id
      [] OTHER -> None

\* Message::new: the envelope takes its routing from the payload's type.
MessageNew(p) ==
    [from_id |-> src_party_id(p), to_id |-> dst_party_id(p), payload |-> p]

\* Message::encode_vector
encode_vector(ms) == {MessageNew(m) : m \in ms}

\* Message::decode_vector::<T>: every payload must decode as the type T.
decode_vector(msgs, kind) ==
    [ok |-> \A m \in msgs : m.payload.kind = kind,
     vals |-> {m.payload : m \in msgs}]

\* maybe_seeded_rng: a given seed fixes the generator, no seed draws a fresh one.
maybe_seeded_rng(seed) == IF seed = None THEN Rngs ELSE {seed}

\* --------------------------------------------------- protocol engine
\* dsg_ot_variant::State::new
StateNew(rng, party) == [party |-> party, step |-> 0, rands |-> <<rng>>]

generate_msg1(st) == SignMsg1(st.party)

\* The engine accepts a batch that holds exactly the expected peer messages.
EngineCheck(msgs, expected) ==
    IF msgs = expected THEN "ok"
    ELSE IF ~(expected \subseteq msgs) THEN "MissingMessage"
    ELSE "InvalidMessage"

handle_msg1(st, rng, msgs) ==
    LET c == EngineCheck(msgs, {SignMsg1(p) : p \in Peers(st.party)})
    IN IF c = "ok"
       THEN [ok |-> TRUE, err |-> "",
             state |-> [st EXCEPT !.step = 1, !.rands = Append(@, rng)],
             out |-> {SignMsg2(st.party, p) : p \in Peers(st.party)}]
       ELSE [ok |-> FALSE, err |-> c, state |-> st, out |-> {}]

handle_msg2(st, rng, msgs) ==
    LET c == EngineCheck(msgs, {SignMsg2(p, st.party) : p \in Peers(st.party)})
    IN IF c = "ok"
       THEN [ok |-> TRUE, err |-> "",
             state |-> [st EXCEPT !.step = 2, !.rands = Append(@, rng)],
             out |-> {SignMsg3(st.party, p) : p \in Peers(st.party)}]
       ELSE [ok |-> FALSE, err |-> c, state |-> st, out |-> {}]

PreSignature(st) == [party |-> st.party, sid |-> st.rands]
NoPre == [party |-> None, sid |-> <<>>]

handle_msg3(st, msgs) ==
    LET c == EngineCheck(msgs, {SignMsg3(p, st.party) : p \in Peers(st.party)})
    IN IF c = "ok"
       THEN [ok |-> TRUE, err |-> "",
             state |-> [st EXCEPT !.step = 3],
             pre |-> PreSignature([st EXCEPT !.step = 3])]
       ELSE [ok |-> FALSE, err |-> c, state |-> st, pre |-> NoPre]

\* dsg::create_partial_signature
create_partial_signature(pre, hash) ==
    [partial |-> [party |-> pre.party, sid |-> pre.sid, hash |-> hash.val],
     msg4 |-> SignMsg4(pre.party, hash.val, pre.sid)]

\* dsg_ot_variant::combine_signatures: one contribution from every peer, all
\* for the digest of the partial signature; r is made of every party's share.
combine_signatures(partial, msgs) ==
    LET keys == {<<m.from_id, m.val>> : m \in msgs}
        c == IF Cardinality(keys) # Cardinality(msgs) THEN "InvalidMessage"
             ELSE EngineCheck(keys,
                      {<<p, partial.hash>> : p \in Peers(partial.party)})
    IN IF c = "ok"
       THEN [ok |-> TRUE, err |-> "",
             sign |-> [r |-> {<<partial.party, partial.sid>>}
                               \cup {<<m.from_id, m.share>> : m \in msgs},
                       s |-> partial.hash]]
       ELSE [ok |-> FALSE, err |-> c, sign |-> [r |-> {}, s |-> None]]

\* Signature::split_bytes
split_bytes(sign) == <<sign.r, sign.s>>

\* errors::sign_ot_variant_error: the engine's error carried to the caller.
sign_ot_variant_error(err) == err

\* ------------------------------------------------------------- Round
RoundInit == [tag |-> "Init"]
RoundWaitMsg1 == [tag |-> "WaitMsg1"]
RoundWaitMsg2 == [tag |-> "WaitMsg2"]
RoundWaitMsg3 == [tag |-> "WaitMsg3"]
RoundPre(pre) == [tag |-> "Pre", pre |-> pre]
RoundWaitMsg4(partial) == [tag |-> "WaitMsg4", partial |-> partial]
RoundFailed == [tag |-> "Failed"]
RoundFinished == [tag |-> "Finished"]

\* ----------------------------------------------------- call results
\* What a call hands back: Ok/Err, the error text, the outbound messages, the
\* signature array, the error marker of error(), the bytes of toBytes, and the
\* engine function the call invoked.
Ok(msgs, eng) ==
    [ok |-> TRUE, err |-> "", msgs |-> msgs, sig |-> <<>>, marker |-> "",
     bytes |-> <<>>, eng |-> eng]

Err(e, eng) ==
    [ok |-> FALSE, err |-> e, msgs |-> {}, sig |-> <<>>, marker |-> "",
     bytes |-> <<>>, eng |-> eng]

\* ------------------------------------------------ SignSessionOTVariant
SessionOf(rng, party) == [state |-> StateNew(rng, party), round |-> RoundInit]
SessionNew(rng) == SessionOf(rng, PartyId)

\* error() with the test inverted.
Error_Inverted(s) == IF s.round.tag # "Failed" THEN "failed" ELSE ""

Error(s) == IF s.round.tag = "Failed" THEN "failed" ELSE ""

\* create_first_message that also restarts a failed session.
CreateFirstMessage_Restart(s) ==
    IF s.round.tag \in {"Init", "Failed"}
    THEN [s |-> [s EXCEPT !.round = RoundWaitMsg1],
          res |-> Ok({MessageNew(generate_msg1(s.state))}, "generate_msg1")]
    ELSE [s |-> s, res |-> Err("invalid state", "none")]

\* create_first_message that fails the session when called out of order.
CreateFirstMessage_FailOnMisuse(s) ==
    IF s.round.tag = "Init"
    THEN [s |-> [s EXCEPT !.round = RoundWaitMsg1],
          res |-> Ok({MessageNew(generate_msg1(s.state))}, "generate_msg1")]
    ELSE [s |-> [s EXCEPT !.round = RoundFailed],
          res |-> Err("invalid state", "none")]

\* create_first_message that forgets to move the round.
CreateFirstMessage_NoAdvance(s) ==
    IF s.round.tag = "Init"
    THEN [s |-> s,
          res |-> Ok({MessageNew(generate_msg1(s.state))}, "generate_msg1")]
    ELSE [s |-> s, res |-> Err("invalid state", "none")]

CreateFirstMessage(s) ==
    IF s.round.tag = "Init"
    THEN [s |-> [s EXCEPT !.round = RoundWaitMsg1],
          res |-> Ok({MessageNew(generate_msg1(s.state))}, "generate_msg1")]
    ELSE [s |-> s, res |-> Err("invalid state", "none")]

\* The closures handle_messages passes to handle: the engine's round handler
\* named h, with the generator the closure captured; T is the message type
\* the handler takes.
CallHandler(h, st, rng, ms) ==
    CASE h = "handle_msg1" -> handle_msg1(st, rng, ms)
      [] h = "handle_msg2" -> handle_msg2(st, rng, ms)

HandlerKind(h) == CASE h = "handle_msg1" -> 1 [] h = "handle_msg2" -> 2

\* handle that ignores the round it was told to move to.
Handle_WrongNext(s, msgs, h, rng, next) ==
    LET dec == decode_vector(msgs, HandlerKind(h))
    IN IF ~dec.ok
       THEN [s |-> s, res |-> Err("decode error", "none")]
       ELSE LET r == CallHandler(h, s.state, rng, dec.vals)
            IN IF r.ok
               THEN [s |-> [state |-> r.state, round |-> RoundWaitMsg3],
                     res |-> Ok(encode_vector(r.out), h)]
               ELSE [s |-> [state |-> r.state, round |-> RoundFailed],
                     res |-> Err(sign_ot_variant_error(r.err), h)]

\* handle that swallows the engine's error and moves on.
Handle_IgnoreError(s, msgs, h, rng, next) ==
    LET dec == decode_vector(msgs, HandlerKind(h))
    IN IF ~dec.ok
       THEN [s |-> s, res |-> Err("decode error", "none")]
       ELSE LET r == CallHandler(h, s.state, rng, dec.vals)
            IN [s |-> [state |-> r.state, round |-> next],
                res |-> Ok(encode_vector(r.out), h)]

Handle(s, msgs, h, rng, next) ==
    LET dec == decode_vector(msgs, HandlerKind(h))
    IN IF ~dec.ok
       THEN [s |-> s, res |-> Err("decode error", "none")]
       ELSE LET r == CallHandler(h, s.state, rng, dec.vals)
            IN IF r.ok
               THEN [s |-> [state |-> r.state, round |-> next],
                     res |-> Ok(encode_vector(r.out), h)]
               ELSE [s |-> [state |-> r.state, round |-> RoundFailed],
                     res |-> Err(sign_ot_variant_error(r.err), h)]

\* handle_messages without the Round::Failed arm.
HandleMessages_NoFailedArm(s, msgs, rng) ==
    CASE s.round.tag = "WaitMsg1" ->
             Handle(s, msgs, "handle_msg1", rng, RoundWaitMsg2)
      [] s.round.tag = "WaitMsg2" ->
             Handle(s, msgs, "handle_msg2", rng, RoundWaitMsg3)
      [] s.round.tag = "WaitMsg3" ->
             LET dec == decode_vector(msgs, 3)
             IN IF ~dec.ok
                THEN [s |-> s, res |-> Err("decode error", "none")]
                ELSE LET r == handle_msg3(s.state, dec.vals)
                     IN IF r.ok
                        THEN [s |-> [state |-> r.state,
                                     round |-> RoundPre(r.pre)],
                              res |-> Ok({}, "handle_msg3")]
                        ELSE [s |-> [s EXCEPT !.state = r.state],
                              res |-> Err(sign_ot_variant_error(r.err),
                                          "handle_msg3")]
      [] OTHER -> [s |-> s, res |-> Err("invalid session state", "none")]

HandleMessages(s, msgs, rng) ==
    CASE s.round.tag = "WaitMsg1" ->
             Handle(s, msgs, "handle_msg1", rng, RoundWaitMsg2)
      [] s.round.tag = "WaitMsg2" ->
             Handle(s, msgs, "handle_msg2", rng, RoundWaitMsg3)
      [] s.round.tag = "WaitMsg3" ->
             LET dec == decode_vector(msgs, 3)
             IN IF ~dec.ok
                THEN [s |-> s, res |-> Err("decode error", "none")]
                ELSE LET r == handle_msg3(s.state, dec.vals)
                     IN IF r.ok
                        THEN [s |-> [state |-> r.state,
                                     round |-> RoundPre(r.pre)],
                              res |-> Ok({}, "handle_msg3")]
                        ELSE [s |-> [s EXCEPT !.state = r.state],
                              res |-> Err(sign_ot_variant_error(r.err),
                                          "handle_msg3")]
      [] s.round.tag = "Failed" -> [s |-> s, res |-> Err("failed", "none")]
      [] OTHER -> [s |-> s, res |-> Err("invalid session state", "none")]

\* last_message that only rejects a digest that is too short.
LastMessage_LenAtLeast(s, message_hash) ==
    IF message_hash.len < HashLen
    THEN [s |-> s, res |-> Err("invalid message hash", "none")]
    ELSE LET prev == s.round
             s1 == [s EXCEPT !.round = RoundFinished]
         IN IF prev.tag = "Pre"
            THEN LET c == create_partial_signature(prev.pre, message_hash)
                 IN [s |-> [s1 EXCEPT !.round = RoundWaitMsg4(c.partial)],
                     res |-> Ok({MessageNew(c.msg4)},
                                "create_partial_signature")]
            ELSE [s |-> [s1 EXCEPT !.round = prev],
                  res |-> Err("invalid state", "none")]

\* last_message that does not put the round back when it is not Pre.
LastMessage_NoRestore(s, message_hash) ==
    IF message_hash.len # HashLen
    THEN [s |-> s, res |-> Err("invalid message hash", "none")]
    ELSE LET prev == s.round
             s1 == [s EXCEPT !.round = RoundFinished]
         IN IF prev.tag = "Pre"
            THEN LET c == create_partial_signature(prev.pre, message_hash)
                 IN [s |-> [s1 EXCEPT !.round = RoundWaitMsg4(c.partial)],
                     res |-> Ok({MessageNew(c.msg4)},
                                "create_partial_signature")]
            ELSE [s |-> s1, res |-> Err("invalid state", "none")]

\* last_message that takes the round out before it looks at the digest.
LastMessage_ReplaceFirst(s, message_hash) ==
    LET prev == s.round
        s1 == [s EXCEPT !.round = RoundFinished]
    IN IF message_hash.len # HashLen
       THEN [s |-> s1, res |-> Err("invalid message hash", "none")]
       ELSE IF prev.tag = "Pre"
            THEN LET c == create_partial_signature(prev.pre, message_hash)
                 IN [s |-> [s1 EXCEPT !.round = RoundWaitMsg4(c.partial)],
                     res |-> Ok({MessageNew(c.msg4)},
                                "create_partial_signature")]
            ELSE [s |-> [s1 EXCEPT !.round = prev],
                  res |-> Err("invalid state", "none")]

\* last_message that keeps the pre-signature in the round.
LastMessage_KeepPre(s, message_hash) ==
    IF message_hash.len # HashLen
    THEN [s |-> s, res |-> Err("invalid message hash", "none")]
    ELSE IF s.round.tag = "Pre"
         THEN LET c == create_partial_signature(s.round.pre, message_hash)
              IN [s |-> s,
                  res |-> Ok({MessageNew(c.msg4)}, "create_partial_signature")]
         ELSE [s |-> s, res |-> Err("invalid state", "none")]

LastMessage(s, message_hash) ==
    IF message_hash.len # HashLen
    THEN [s |-> s, res |-> Err("invalid message hash", "none")]
    ELSE LET prev == s.round
             s1 == [s EXCEPT !.round = RoundFinished]
         IN IF prev.tag = "Pre"
            THEN LET c == create_partial_signature(prev.pre, message_hash)
                 IN [s |-> [s1 EXCEPT !.round = RoundWaitMsg4(c.partial)],
                     res |-> Ok({MessageNew(c.msg4)},
                                "create_partial_signature")]
            ELSE [s |-> [s1 EXCEPT !.round = prev],
                  res |-> Err("invalid state", "none")]

\* combine that takes the pre-signature for a partial signature.
CombinePartialSignature_FromPre(s, msgs) ==
    IF s.round.tag \in {"WaitMsg4", "Pre"}
    THEN LET dec == decode_vector(msgs, 4)
             partial == IF s.round.tag = "WaitMsg4" THEN s.round.partial
                        ELSE [party |-> s.round.pre.party,
                              sid |-> s.round.pre.sid, hash |-> 1]
         IN IF ~dec.ok
            THEN [consumed |-> TRUE, res |-> Err("decode error", "none")]
            ELSE LET r == combine_signatures(partial, dec.vals)
                 IN IF r.ok
                    THEN [consumed |-> TRUE,
                          res |-> [Ok({}, "combine_signatures")
                                     EXCEPT !.sig = split_bytes(r.sign)]]
                    ELSE [consumed |-> TRUE,
                          res |-> Err(sign_ot_variant_error(r.err),
                                      "combine_signatures")]
    ELSE [consumed |-> TRUE, res |-> Err("invalid state", "none")]

\* combine on a borrowed session: an error leaves the session with the caller.
CombinePartialSignature_KeepOnError(s, msgs) ==
    IF s.round.tag = "WaitMsg4"
    THEN LET dec == decode_vector(msgs, 4)
         IN IF ~dec.ok
            THEN [consumed |-> FALSE, res |-> Err("decode error", "none")]
            ELSE LET r == combine_signatures(s.round.partial, dec.vals)
                 IN IF r.ok
                    THEN [consumed |-> TRUE,
                          res |-> [Ok({}, "combine_signatures")
                                     EXCEPT !.sig = split_bytes(r.sign)]]
                    ELSE [consumed |-> FALSE,
                          res |-> Err(sign_ot_variant_error(r.err),
                                      "combine_signatures")]
    ELSE [consumed |-> FALSE, res |-> Err("invalid state", "none")]

\* combine that hands back its own partial signature when the engine refuses.
CombinePartialSignature_PartialOnError(s, msgs) ==
    IF s.round.tag = "WaitMsg4"
    THEN LET dec == decode_vector(msgs, 4)
         IN IF ~dec.ok
            THEN [consumed |-> TRUE, res |-> Err("decode error", "none")]
            ELSE LET r == combine_signatures(s.round.partial, dec.vals)
                 IN IF r.ok
                    THEN [consumed |-> TRUE,
                          res |-> [Ok({}, "combine_signatures")
                                     EXCEPT !.sig = split_bytes(r.sign)]]
                    ELSE [consumed |-> TRUE,
                          res |-> [Ok({}, "combine_signatures")
                                     EXCEPT !.sig = <<s.round.partial.sid,
                                                      s.round.partial.hash>>]]
    ELSE [consumed |-> TRUE, res |-> Err("invalid state", "none")]

\* combine that returns the signature made of this party's share alone.
CombinePartialSignature_OwnShare(s, msgs) ==
    IF s.round.tag = "WaitMsg4"
    THEN LET dec == decode_vector(msgs, 4)
         IN IF ~dec.ok
            THEN [consumed |-> TRUE, res |-> Err("decode error", "none")]
            ELSE LET r == combine_signatures(s.round.partial, dec.vals)
                 IN IF r.ok
                    THEN [consumed |-> TRUE,
                          res |-> [Ok({}, "combine_signatures")
                                     EXCEPT !.sig = split_bytes(
                                         [r |-> {<<s.round.partial.party,
                                                   s.round.partial.sid>>},
                                          s |-> s.round.partial.hash])]]
                    ELSE [consumed |-> TRUE,
                          res |-> Err(sign_ot_variant_error(r.err),
                                      "combine_signatures")]
    ELSE [consumed |-> TRUE, res |-> Err("invalid state", "none")]

\* combine takes the session by value: whatever it returns, the session is gone.
CombinePartialSignature(s, msgs) ==
    IF s.round.tag = "WaitMsg4"
    THEN LET dec == decode_vector(msgs, 4)
         IN IF ~dec.ok
            THEN [consumed |-> TRUE, res |-> Err("decode error", "none")]
            ELSE LET r == combine_signatures(s.round.partial, dec.vals)
                 IN IF r.ok
                    THEN [consumed |-> TRUE,
                          res |-> [Ok({}, "combine_signatures")
                                     EXCEPT !.sig = split_bytes(r.sign)]]
                    ELSE [consumed |-> TRUE,
                          res |-> Err(sign_ot_variant_error(r.err),
                                      "combine_signatures")]
    ELSE [consumed |-> TRUE, res |-> Err("invalid state", "none")]

\* CBOR image of the session: the engine state, then the round tag and payload.
EncSeq(q) == <<Len(q)>> \o q

TagIndex(tag) ==
    CASE tag = "Init" -> 0
      [] tag = "WaitMsg1" -> 1
      [] tag = "WaitMsg2" -> 2
      [] tag = "WaitMsg3" -> 3
      [] tag = "Pre" -> 4
      [] tag = "WaitMsg4" -> 5
      [] tag = "Failed" -> 6
      [] tag = "Finished" -> 7

\* An image of the round that leaves the digest of the partial signature out.
EncRound_NoDigest(r) ==
    CASE r.tag = "Pre" -> <<TagIndex(r.tag), r.pre.party>> \o EncSeq(r.pre.sid)
      [] r.tag = "WaitMsg4" ->
             <<TagIndex(r.tag), r.partial.party>> \o EncSeq(r.partial.sid)
      [] OTHER -> <<TagIndex(r.tag)>>

EncRound(r) ==
    CASE r.tag = "Pre" -> <<TagIndex(r.tag), r.pre.party>> \o EncSeq(r.pre.sid)
      [] r.tag = "WaitMsg4" ->
             <<TagIndex(r.tag), r.partial.party>> \o EncSeq(r.partial.sid)
                 \o <<r.partial.hash>>
      [] OTHER -> <<TagIndex(r.tag)>>

ToBytes(s) ==
    <<s.state.party, s.state.step>> \o EncSeq(s.state.rands) \o EncRound(s.round)

\* The reader of that image; anything that is not a whole session is refused.
DecodeError == [ok |-> FALSE]

TagName(i) ==
    CASE i = 0 -> "Init"
      [] i = 1 -> "WaitMsg1"
      [] i = 2 -> "WaitMsg2"
      [] i = 3 -> "WaitMsg3"
      [] i = 4 -> "Pre"
      [] i = 5 -> "WaitMsg4"
      [] i = 6 -> "Failed"
      [] i = 7 -> "Finished"

DecRound(q) ==
    IF Len(q) = 0 \/ q[1] \notin 0..7 THEN DecodeError
    ELSE CASE q[1] = 4 ->
                  IF Len(q) >= 3 /\ Len(q) = 3 + q[3]
                  THEN [ok |-> TRUE,
                        round |-> RoundPre([party |-> q[2],
                                            sid |-> SubSeq(q, 4, 3 + q[3])])]
                  ELSE DecodeError
           [] q[1] = 5 ->
                  IF Len(q) >= 4 /\ Len(q) = 4 + q[3]
                  THEN [ok |-> TRUE,
                        round |-> RoundWaitMsg4(
                                      [party |-> q[2],
                                       sid |-> SubSeq(q, 4, 3 + q[3]),
                                       hash |-> q[Len(q)]])]
                  ELSE DecodeError
           [] OTHER ->
                  IF Len(q) = 1
                  THEN [ok |-> TRUE, round |-> [tag |-> TagName(q[1])]]
                  ELSE DecodeError

FromBytes(bytes) ==
    IF Len(bytes) < 4 \/ Len(bytes) < 4 + bytes[3] THEN DecodeError
    ELSE LET n == bytes[3]
             rd == DecRound(SubSeq(bytes, 4 + n, Len(bytes)))
         IN IF rd.ok
            THEN [ok |-> TRUE,
                  s |-> [state |-> [party |-> bytes[1], step |-> bytes[2],
                                    rands |-> SubSeq(bytes, 4, 3 + n)],
                         round |-> rd.round]]
            ELSE DecodeError

\* ------------------------------------------------------ inbound batches
\* The batches a caller can hand in for a round of kind k: the complete set of
\* peer messages, that set with one message left out, the set with a unicast
\* message addressed to another party put in or put in place of the right
\* one, round-4 messages for a different digest, and the empty batch.
MinPeer == CHOOSE p \in Peers(PartyId) : \A q \in Peers(PartyId) : p <= q
MaxPeer == CHOOSE p \in Peers(PartyId) : \A q \in Peers(PartyId) : p >= q

\* The share a peer's round-4 message carries in the one-session view.
PeerShare == <<1, 1, 1>>

Expected(k, v) ==
    CASE k = 1 -> {SignMsg1(p) : p \in Peers(PartyId)}
      [] k = 2 -> {SignMsg2(p, PartyId) : p \in Peers(PartyId)}
      [] k = 3 -> {SignMsg3(p, PartyId) : p \in Peers(PartyId)}
      [] k = 4 -> {SignMsg4(p, v, PeerShare) : p \in Peers(PartyId)}

Strays(k, v) ==
    CASE k = 1 -> {}
      [] k = 2 -> {SignMsg2(MinPeer, MaxPeer)}
      [] k = 3 -> {SignMsg3(MinPeer, MaxPeer)}
      [] k = 4 -> {SignMsg4(MinPeer, w, PeerShare) :
                       w \in (1..NumDigest) \ {v}}

TypedBatches(k, v) ==
    LET full == Expected(k, v)
    IN {full, {}}
         \cup {full \ {m} : m \in full}
         \cup {full \cup {x} : x \in Strays(k, v)}
         \cup {(full \ {m}) \cup {x} :
                   m \in {y \in full : y.from_id = MinPeer}, x \in Strays(k, v)}

InboundBatches ==
    {encode_vector(b) :
        b \in UNION {TypedBatches(k, v) : k \in 1..4, v \in 1..NumDigest}}

\* ------------------------------------------------------------ the state
VARIABLES
    sess,    \* the SignSessionOTVariant value: [state, round]
    alive,   \* the session object still exists (combine has not consumed it)
    last,    \* the last call: its name, its arguments, what it returned
    okHist,  \* the successful round-advancing calls so far, in order
    snap,    \* the snapshot the caller keeps: toBytes output (and its history)
    obj,     \* how many times the caller replaced the session by a restored one
    signed,  \* the partial signatures made: pre-signature, digest, session object
    cer,     \* the ceremony: every party's session
    cres,    \* the ceremony: what every party's last call returned
    net,     \* the ceremony: the messages the parties gave to the transport
    digest,  \* the ceremony: the digest the parties sign
    fault    \* the ceremony: the message the transport delivers to a wrong party

snapVars == <<snap, obj>>
oneVars == <<sess, alive, last, okHist, snap, obj, signed>>
cerVars == <<cer, cres, net, digest, fault>>
vars == <<sess, alive, last, okHist, snap, obj, signed,
          cer, cres, net, digest, fault>>

NoSnap == [bytes |-> <<>>, hist |-> <<>>]

NoHash == [len |-> 0, val |-> 1]
NoFault == [msg |-> [to_id |-> None], dest |-> None]
Args(hash) == [hash |-> hash]
NoArgs == Args(NoHash)

\* No ceremony: the one-session views leave the ceremony's variables alone.
CerIdle ==
    /\ cer = <<>>
    /\ cres = <<>>
    /\ net = {}
    /\ digest = NoHash
    /\ fault = NoFault

Init ==
    /\ \E seed \in Seeds : \E rng \in maybe_seeded_rng(seed) :
           /\ sess = SessionNew(rng)
           /\ last = [op |-> "new", args |-> NoArgs, res |-> Ok({}, "new")]
    /\ alive = TRUE
    /\ okHist = <<>>
    /\ snap = NoSnap
    /\ obj = 0
    /\ signed = {}
    /\ CerIdle

Record(op, ok) == IF ok THEN Append(okHist, op) ELSE okHist

ErrorCall ==
    /\ alive
    /\ last' = [op |-> "error", args |-> NoArgs,
                res |-> [Ok({}, "none") EXCEPT !.marker = Error(sess)]]
    /\ UNCHANGED <<sess, alive, okHist, snapVars, signed, cerVars>>

ToBytesCall ==
    /\ alive
    /\ last' = [op |-> "to_bytes", args |-> NoArgs,
                res |-> [Ok({}, "none") EXCEPT !.bytes = ToBytes(sess)]]
    /\ UNCHANGED <<sess, alive, okHist, snapVars, signed, cerVars>>

CreateFirstMessageCall ==
    /\ alive
    /\ LET r == CreateFirstMessage(sess)
       IN /\ sess' = r.s
          /\ last' = [op |-> "create_first_message", args |-> NoArgs,
                      res |-> r.res]
          /\ okHist' = Record("create_first_message", r.res.ok)
    /\ UNCHANGED <<alive, snapVars, signed, cerVars>>

\* handle_messages with the batch and the seed drawn from the given sets.
HandleMessagesWith(batches, seeds) ==
    /\ alive
    /\ \E msgs \in batches, seed \in seeds :
         \E rng \in maybe_seeded_rng(seed) :
           LET r == HandleMessages(sess, msgs, rng)
           IN /\ sess' = r.s
              /\ last' = [op |-> "handle_messages", args |-> NoArgs,
                          res |-> r.res]
              /\ okHist' = Record("handle_messages", r.res.ok)
    /\ UNCHANGED <<alive, snapVars, signed, cerVars>>

HandleMessagesCall == HandleMessagesWith(InboundBatches, Seeds)

\* last_message with the digest drawn from the given set.
LastMessageWith(digests) ==
    /\ alive
    /\ \E hash \in digests :
           LET r == LastMessage(sess, hash)
           IN /\ sess' = r.s
              /\ last' = [op |-> "last_message", args |-> Args(hash),
                          res |-> r.res]
              /\ okHist' = Record("last_message", r.res.ok)
              /\ signed' = IF r.res.ok
                           THEN signed \cup {[pre |-> sess.round.pre,
                                              digest |-> hash.val,
                                              obj |-> obj]}
                           ELSE signed
    /\ UNCHANGED <<alive, snapVars, cerVars>>

LastMessageCall == LastMessageWith(Digests)

CombineCall ==
    /\ alive
    /\ \E msgs \in InboundBatches :
           LET r == CombinePartialSignature(sess, msgs)
           IN /\ alive' = ~r.consumed
              /\ last' = [op |-> "combine", args |-> NoArgs, res |-> r.res]
    /\ UNCHANGED <<sess, okHist, snapVars, signed, cerVars>>

Next ==
    \/ ErrorCall
    \/ ToBytesCall
    \/ CreateFirstMessageCall
    \/ HandleMessagesCall
    \/ LastMessageCall
    \/ CombineCall

Spec == Init /\ [][Next]_vars

\* ------------------------------------------- snapshots and restored sessions
\* toBytes whose result the caller keeps.
SnapshotCall ==
    /\ alive
    /\ snap' = [bytes |-> ToBytes(sess), hist |-> okHist]
    /\ last' = [op |-> "to_bytes", args |-> NoArgs,
                res |-> [Ok({}, "none") EXCEPT !.bytes = ToBytes(sess)]]
    /\ UNCHANGED <<sess, alive, okHist, obj, signed, cerVars>>

\* fromBytes on the kept snapshot: the caller goes on with the restored session.
FromBytesCall ==
    /\ snap # NoSnap
    /\ obj < MaxRestores
    /\ LET d == FromBytes(snap.bytes)
       IN /\ d.ok
          /\ sess' = d.s
    /\ alive' = TRUE
    /\ okHist' = snap.hist
    /\ obj' = obj + 1
    /\ last' = [op |-> "from_bytes", args |-> NoArgs, res |-> Ok({}, "none")]
    /\ UNCHANGED <<snap, signed, cerVars>>

\* The caller of this view hands in each round's complete batch or an empty
\* one, seeds the generator, and signs 32-byte digests.
SnapSeeds == {1}
SnapBatches == {encode_vector(Expected(k, 1)) : k \in 1..3} \cup {{}}
SnapDigests == {d \in Digests : d.len = HashLen}

SnapHandleCall == HandleMessagesWith(SnapBatches, SnapSeeds)
SnapLastCall == LastMessageWith(SnapDigests)

NextSnap ==
    \/ CreateFirstMessageCall
    \/ SnapHandleCall
    \/ SnapLastCall
    \/ SnapshotCall
    \/ FromBytesCall

SpecSnap == Init /\ [][NextSnap]_vars

\* ------------------------------------------------------ the ceremony
\* Every party runs one session on its own key share; the transport hands a
\* party, for each round, the messages the routing addresses to it, once every
\* peer has sent its messages of that round.
CerSeed(p) == ((p - 1) % NumRng) + 1

CallOf(op, res) == [op |-> op, res |-> res]

CerInit ==
    /\ \E r \in Rngs :
           cer = [p \in Parties |-> SessionOf(((p + r) % NumRng) + 1, p)]
    /\ cres = [p \in Parties |-> CallOf("new", Ok({}, "new"))]
    /\ net = {}
    /\ \E h \in SnapDigests : digest = h
    /\ fault = NoFault
    /\ sess = SessionNew(1)
    /\ last = [op |-> "new", args |-> NoArgs, res |-> Ok({}, "new")]
    /\ alive = TRUE
    /\ okHist = <<>>
    /\ snap = NoSnap
    /\ obj = 0
    /\ signed = {}

\* The transport: a broadcast goes to every other party, a unicast to the
\* party it names, the misrouted message to the wrong party only.
Delivered(m, p) ==
    IF fault # NoFault /\ m = fault.msg
    THEN p = fault.dest
    ELSE \/ m.to_id = None /\ m.from_id # p
         \/ m.to_id = p

Inbox(p, k) == {m \in net : m.payload.kind = k /\ Delivered(m, p)}

Sent(q, k) == \E m \in net : m.from_id = q /\ m.payload.kind = k

Ready(p, k) == \A q \in Peers(p) : Sent(q, k)

RoundKind(tag) ==
    CASE tag = "WaitMsg1" -> 1
      [] tag = "WaitMsg2" -> 2
      [] tag = "WaitMsg3" -> 3
      [] tag = "WaitMsg4" -> 4

Consumed(p) == cres[p].op = "combine"

CerCreate(p) ==
    /\ cer[p].round.tag = "Init"
    /\ LET r == CreateFirstMessage(cer[p])
       IN /\ cer' = [cer EXCEPT ![p] = r.s]
          /\ cres' = [cres EXCEPT ![p] = CallOf("create_first_message", r.res)]
          /\ net' = net \cup r.res.msgs
    /\ UNCHANGED <<digest, fault, oneVars>>

CerHandle(p) ==
    /\ cer[p].round.tag \in {"WaitMsg1", "WaitMsg2", "WaitMsg3"}
    /\ Ready(p, RoundKind(cer[p].round.tag))
    /\ LET r == HandleMessages(cer[p], Inbox(p, RoundKind(cer[p].round.tag)),
                               CerSeed(p))
       IN /\ cer' = [cer EXCEPT ![p] = r.s]
          /\ cres' = [cres EXCEPT ![p] = CallOf("handle_messages", r.res)]
          /\ net' = net \cup r.res.msgs
    /\ UNCHANGED <<digest, fault, oneVars>>

CerLast(p) ==
    /\ cer[p].round.tag = "Pre"
    /\ LET r == LastMessage(cer[p], digest)
       IN /\ cer' = [cer EXCEPT ![p] = r.s]
          /\ cres' = [cres EXCEPT ![p] = CallOf("last_message", r.res)]
          /\ net' = net \cup r.res.msgs
    /\ UNCHANGED <<digest, fault, oneVars>>

CerCombine(p) ==
    /\ cer[p].round.tag = "WaitMsg4"
    /\ ~Consumed(p)
    /\ Ready(p, 4)
    /\ LET r == CombinePartialSignature(cer[p], Inbox(p, 4))
       IN cres' = [cres EXCEPT ![p] = CallOf("combine", r.res)]
    /\ UNCHANGED <<cer, net, digest, fault, oneVars>>

\* The transport's slip: one round-2 message, not yet handled by the party it
\* is for, goes to a third party instead.
Misroute ==
    /\ fault = NoFault
    /\ \E m \in net, d \in Parties :
           /\ m.payload.kind = 2
           /\ d \notin {m.from_id, m.to_id}
           /\ cer[m.to_id].round.tag \in {"WaitMsg1", "WaitMsg2"}
           /\ fault' = [msg |-> m, dest |-> d]
    /\ UNCHANGED <<cer, cres, net, digest, oneVars>>

CerParty(p) == CerCreate(p) \/ CerHandle(p) \/ CerLast(p) \/ CerCombine(p)

CerNext == \E p \in Parties : CerParty(p)

SpecCeremony ==
    CerInit /\ [][CerNext]_vars /\ \A p \in Parties : WF_vars(CerParty(p))

MisrouteNext == CerNext \/ Misroute

SpecMisroute == CerInit /\ [][MisrouteNext]_vars

\* ------------------------------------------------------- error kinds
ErrInvalidState(e) == e \in {"invalid state", "invalid session state"}
ErrInvalidInput(e) == e = "invalid message hash"
ErrSessionFailed(e) == e = "failed"
EngineErrors == {"MissingMessage", "InvalidMessage"}
EngineHandlers == {"handle_msg1", "handle_msg2", "handle_msg3"}
RoundAdvancing == {"create_first_message", "handle_messages", "last_message"}

Rank(tag) ==
    CASE tag = "Init" -> 0
      [] tag = "WaitMsg1" -> 1
      [] tag = "WaitMsg2" -> 2
      [] tag = "WaitMsg3" -> 3
      [] tag = "Pre" -> 4
      [] tag = "WaitMsg4" -> 5
      [] OTHER -> 6

\* ----------------------------------------------------------------- C1
\* C1: the round only moves forward. A step that changes the round goes from
\* a round of the sequence Init, WaitMsg1, WaitMsg2, WaitMsg3, Pre, WaitMsg4
\* to exactly the next one or to Failed, and every successful
\* create_first_message, handle_messages or last_message moves it to exactly
\* the next one.
C1_RoundForward ==
    [][/\ sess'.round # sess.round =>
            /\ Rank(sess.round.tag) <= 5
            /\ \/ sess'.round.tag = "Failed"
               \/ Rank(sess'.round.tag) = Rank(sess.round.tag) + 1
       /\ (last'.op \in RoundAdvancing /\ last'.res.ok) =>
            /\ Rank(sess.round.tag) <= 4
            /\ Rank(sess'.round.tag) = Rank(sess.round.tag) + 1]_vars

C1_Witness ==
    /\ sess.round.tag = "WaitMsg4"
    /\ last.op = "last_message"
    /\ last.res.ok
    /\ Len(okHist) = 5

\* ----------------------------------------------------------------- C2
\* C2: whenever the engine returns an error to a handle_messages call made in
\* WaitMsg1, WaitMsg2 or WaitMsg3, the round becomes Failed, the engine's error
\* is what the caller gets, and no handle_messages call made afterwards
\* reaches the engine again.
C2_EngineErrorFails ==
    [][(/\ last'.op = "handle_messages"
        /\ last'.res.eng \in EngineHandlers
        /\ ~last'.res.ok) =>
            /\ last'.res.err \in EngineErrors
            /\ sess'.round = RoundFailed
            /\ \A msgs \in InboundBatches, rng \in Rngs :
                   LET again == HandleMessages(sess', msgs, rng)
                   IN ~again.res.ok /\ again.res.eng = "none"]_vars

\* ----------------------------------------------------------------- C3
\* C3: sticky failure. In Failed, every create_first_message, handle_messages,
\* last_message and combine call fails without reaching the engine, and the
\* round stays Failed with the protocol state unchanged.
C3_StickyFailure ==
    [][(sess.round.tag = "Failed"
          /\ last'.op \in RoundAdvancing \cup {"combine"}) =>
            /\ ~last'.res.ok
            /\ \/ ErrSessionFailed(last'.res.err)
               \/ ErrInvalidState(last'.res.err)
               \/ ErrInvalidInput(last'.res.err)
            /\ last'.res.eng = "none"
            /\ sess' = sess
            /\ sess'.round = RoundFailed]_vars

C3_Witness ==
    /\ sess.round.tag = "Failed"
    /\ last.op = "create_first_message"
    /\ ~last.res.ok

\* ----------------------------------------------------------------- C4
\* C4 as stated: a call of any operation, combine included, that fails with
\* InvalidState or InvalidInput leaves the session as it was and usable.
C4_Original ==
    [][(ErrInvalidState(last'.res.err) \/ ErrInvalidInput(last'.res.err)) =>
            /\ sess' = sess
            /\ alive']_vars

\* C4 amended: a create_first_message, handle_messages or last_message call
\* that fails with InvalidState or InvalidInput leaves round, payload and
\* protocol state as they were and the session usable, so every operation
\* gives afterwards what it would have given before; a combine call that
\* fails with InvalidState does not move the round to Failed either, but it
\* consumes the session.
C4_Amended ==
    [][(ErrInvalidState(last'.res.err) \/ ErrInvalidInput(last'.res.err)) =>
            /\ sess' = sess
            /\ last'.op \in RoundAdvancing \cup {"combine"}
            /\ last'.op \in RoundAdvancing => alive'
            /\ last'.op = "combine" => ~alive']_vars

C4_Witness ==
    /\ last.op = "handle_messages"
    /\ ErrInvalidState(last.res.err)
    /\ sess.round.tag = "Pre"
    /\ alive

\* ----------------------------------------------------------------- C5
\* C5: combine returns a two-component signature only after, in this order,
\* one successful create_first_message, three successful handle_messages and
\* one successful last_message; in any round other than WaitMsg4 it fails with
\* InvalidState and does not invoke the engine's combination.
C5_CombineOnlyAfterLast ==
    [][last'.op = "combine" =>
            /\ last'.res.ok =>
                 /\ okHist' = <<"create_first_message", "handle_messages",
                                "handle_messages", "handle_messages",
                                "last_message">>
                 /\ Len(last'.res.sig) = 2
                 /\ sess.round.tag = "WaitMsg4"
            /\ sess.round.tag # "WaitMsg4" =>
                 /\ ErrInvalidState(last'.res.err)
                 /\ last'.res.eng = "none"
                 /\ last'.res.sig = <<>>]_vars

C5_Witness ==
    /\ last.op = "combine"
    /\ last.res.ok
    /\ Len(last.res.sig) = 2

\* ----------------------------------------------------------------- C6
\* C6: combine consumes the session. Whatever round it is called in and
\* whatever it returns, the session is gone afterwards and no operation is
\* ever made on it again.
C6_CombineConsumes ==
    [][/\ last.op # "combine"
       /\ last'.op = "combine" => ~alive']_vars

C6_Witness ==
    /\ last.op = "combine"
    /\ ~last.res.ok
    /\ sess.round.tag = "Pre"
    /\ ~alive

\* ----------------------------------------------------------------- C7
\* C7: digest length guard. last_message with a digest that is not 32 bytes
\* long fails with InvalidInput in every round and changes nothing; in Pre a
\* following last_message with any 32-byte digest succeeds.
C7_DigestLengthGuard ==
    [][(last'.op = "last_message" /\ last'.args.hash.len # 32) =>
            /\ ~last'.res.ok
            /\ ErrInvalidInput(last'.res.err)
            /\ sess' = sess
            /\ alive'
            /\ sess.round.tag = "Pre" =>
                 \A h \in Digests : h.len = 32 =>
                     /\ LastMessage(sess', h).res.ok
                     /\ LastMessage(sess', h).s.round.tag = "WaitMsg4"]_vars

C7_Witness ==
    /\ last.op = "last_message"
    /\ last.args.hash.len = 33
    /\ ErrInvalidInput(last.res.err)
    /\ sess.round.tag = "Pre"

\* ----------------------------------------------------------------- C8
\* C8: create_first_message succeeds exactly in Init; it then moves the round
\* to WaitMsg1 and returns one message from this party with no destination;
\* in every other round it fails with InvalidState and changes nothing.
C8_CreateFirstMessage ==
    [][last'.op = "create_first_message" =>
            IF sess.round.tag = "Init"
            THEN /\ last'.res.ok
                 /\ sess'.round = RoundWaitMsg1
                 /\ Cardinality(last'.res.msgs) = 1
                 /\ \A m \in last'.res.msgs :
                        /\ m.to_id = None
                        /\ m.from_id = PartyId
                        /\ m.payload.kind = 1
            ELSE /\ ~last'.res.ok
                 /\ ErrInvalidState(last'.res.err)
                 /\ last'.res.msgs = {}
                 /\ sess' = sess]_vars

C8_Witness ==
    /\ last.op = "create_first_message"
    /\ last.res.ok
    /\ sess.round.tag = "WaitMsg1"

\* ----------------------------------------------------------------- C9
\* C9: outside WaitMsg1, WaitMsg2 and WaitMsg3 handle_messages does not reach
\* the engine: in Failed it fails with SessionFailed, in Init, Pre, WaitMsg4
\* and Finished with InvalidState, and round and protocol state are unchanged
\* for every batch and seed.
C9_HandleOutsideRounds ==
    /\ [][(last'.op = "handle_messages"
            /\ sess.round.tag \notin {"WaitMsg1", "WaitMsg2", "WaitMsg3"}) =>
               /\ ~last'.res.ok
               /\ last'.res.eng = "none"
               /\ sess' = sess
               /\ IF sess.round.tag = "Failed"
                  THEN ErrSessionFailed(last'.res.err)
                  ELSE ErrInvalidState(last'.res.err)]_vars
    /\ [](\A msgs \in InboundBatches, rng \in Rngs :
            LET fin == [sess EXCEPT !.round = RoundFinished]
                r == HandleMessages(fin, msgs, rng)
            IN /\ r.s = fin
               /\ ErrInvalidState(r.res.err)
               /\ r.res.eng = "none")

C9_Witness ==
    /\ last.op = "handle_messages"
    /\ ErrSessionFailed(last.res.err)
    /\ sess.round.tag = "Failed"

\* ---------------------------------------------------------------- C10
\* C10: last_message with a 32-byte digest succeeds exactly in Pre. It then
\* leaves the round at WaitMsg4 holding the partial signature made from the
\* pre-signature and the digest and returns one message; in every other round
\* it fails with InvalidState and the round with its payload is untouched.
C10_LastMessage ==
    [][(last'.op = "last_message" /\ last'.args.hash.len = 32) =>
            IF sess.round.tag = "Pre"
            THEN /\ last'.res.ok
                 /\ sess'.round =
                        RoundWaitMsg4(create_partial_signature(
                            sess.round.pre, last'.args.hash).partial)
                 /\ sess'.state = sess.state
                 /\ Cardinality(last'.res.msgs) = 1
            ELSE /\ ~last'.res.ok
                 /\ ErrInvalidState(last'.res.err)
                 /\ last'.res.msgs = {}
                 /\ sess' = sess]_vars

C10_Witness ==
    /\ last.op = "last_message"
    /\ last.args.hash.len = 32
    /\ ErrInvalidState(last.res.err)
    /\ sess.round.tag = "WaitMsg4"

\* ---------------------------------------------------------------- C11
\* C11: serialization round trip. For every session the operations can
\* produce, in whatever round, reading back what toBytes wrote gives a session
\* with the same round, payload and protocol state, on which every operation
\* gives what it gives on the original; toBytes leaves the session as it was.
C11_RoundTrip ==
    /\ [](LET d == FromBytes(ToBytes(sess))
          IN /\ d.ok
             /\ d.s = sess
             /\ Error(d.s) = Error(sess)
             /\ CreateFirstMessage(d.s) = CreateFirstMessage(sess)
             /\ \A h \in Digests : LastMessage(d.s, h) = LastMessage(sess, h)
             /\ \A msgs \in SnapBatches, rng \in Rngs :
                    HandleMessages(d.s, msgs, rng)
                        = HandleMessages(sess, msgs, rng))
    /\ [][last'.op = "to_bytes" =>
            /\ sess' = sess
            /\ alive'
            /\ FromBytes(last'.res.bytes).ok
            /\ FromBytes(last'.res.bytes).s = sess]_vars

C11_Witness ==
    /\ last.op = "to_bytes"
    /\ sess.round.tag = "WaitMsg4"
    /\ Len(last.res.bytes) > 0

\* ---------------------------------------------------------------- C12
\* C12: round monotonicity. When create_first_message, handle_messages or
\* last_message succeeds, the same call with the same inputs on the resulting
\* session does not succeed.
C12_NoDoubleSpend ==
    /\ LET r1 == CreateFirstMessage(sess)
       IN r1.res.ok => ~CreateFirstMessage(r1.s).res.ok
    /\ \A msgs \in InboundBatches, seed \in Seeds :
         \A rng1 \in maybe_seeded_rng(seed), rng2 \in maybe_seeded_rng(seed) :
           LET r1 == HandleMessages(sess, msgs, rng1)
           IN r1.res.ok => ~HandleMessages(r1.s, msgs, rng2).res.ok
    /\ \A h \in Digests :
           LET r1 == LastMessage(sess, h)
           IN r1.res.ok => ~LastMessage(r1.s, h).res.ok

C12_Witness ==
    /\ last.op = "create_first_message"
    /\ ~last.res.ok
    /\ okHist = <<"create_first_message">>
    /\ sess.round.tag = "WaitMsg1"

\* ---------------------------------------------------------------- C13
\* C13: routing classification. The message of create_first_message has no
\* destination; every message handle_messages returns in WaitMsg1 (round 2)
\* and in WaitMsg2 (round 3) names this party as source and one peer as
\* destination; whether a destination is present follows from the kind alone.
C13_Routing ==
    [][/\ (last'.op = "create_first_message" /\ last'.res.ok) =>
            \A m \in last'.res.msgs :
                /\ m.payload.kind = 1
                /\ m.from_id = m.payload.from_id
                /\ m.to_id = None
       /\ (last'.op = "handle_messages" /\ last'.res.ok
             /\ sess.round.tag \in {"WaitMsg1", "WaitMsg2"}) =>
            /\ last'.res.msgs # {}
            /\ \A m \in last'.res.msgs :
                /\ m.payload.kind = IF sess.round.tag = "WaitMsg1" THEN 2 ELSE 3
                /\ m.from_id = PartyId
                /\ m.from_id = m.payload.from_id
                /\ m.to_id = m.payload.to_id
                /\ m.to_id \in Peers(PartyId)
       /\ \A m \in last'.res.msgs : (m.to_id = None) <=> (m.payload.kind \in {1, 4})]_vars

C13_Witness ==
    /\ last.op = "handle_messages"
    /\ last.res.ok
    /\ sess.round.tag = "WaitMsg3"
    /\ \E m \in last.res.msgs : m.payload.kind = 3 /\ m.to_id # None

\* ---------------------------------------------------------------- C14
\* C14: in the ceremony of honest parties over a transport that follows the
\* routing, no call of any party fails and no party is ever in Failed; every
\* handle_messages call moves its party one round on, through WaitMsg2 and
\* WaitMsg3 to Pre, last_message moves it to WaitMsg4, and under fair
\* scheduling every party's combine eventually returns a signature.
Signed(p) == cres[p].op = "combine" /\ cres[p].res.ok /\ Len(cres[p].res.sig) = 2

C14_Progress ==
    /\ [](\A p \in Parties : cres[p].res.ok /\ cer[p].round.tag # "Failed")
    /\ [][\A p \in Parties :
            /\ cres'[p].op = "handle_messages" /\ cer'[p] # cer[p] =>
                 Rank(cer'[p].round.tag) = Rank(cer[p].round.tag) + 1
            /\ cres'[p].op = "last_message" /\ cer'[p] # cer[p] =>
                 cer[p].round.tag = "Pre" /\ cer'[p].round.tag = "WaitMsg4"]_vars
    /\ <>(\A p \in Parties : Signed(p))

C14_Witness ==
    /\ \A p \in Parties : Signed(p)
    /\ \A p \in Parties : cer[p].round.tag = "WaitMsg4"

\* ---------------------------------------------------------------- C15
\* C15: in the ceremony of honest parties signing one 32-byte digest, any two
\* parties whose combine returned a signature hold the same (r, s) pair, in
\* every interleaving of the parties' calls.
C15_Agreement ==
    \A p \in Parties, q \in Parties :
        Signed(p) /\ Signed(q) => cres[p].res.sig = cres[q].res.sig

C15_Witness ==
    \E p \in Parties, q \in Parties :
        /\ p # q
        /\ Signed(p) /\ Signed(q)
        /\ cer[p].round.partial # cer[q].round.partial
        /\ cres[p].res.sig = cres[q].res.sig
        /\ digest.len = HashLen

\* ---------------------------------------------------------------- C16
\* C16: once a round-2 message is delivered to a party other than the one it
\* names, the call of handle_messages the named party makes in WaitMsg2 fails
\* with the engine's error and leaves the party in Failed; the named party
\* never reaches WaitMsg3 or any later round.
Victim == fault.msg.to_id

C16_Misrouted ==
    /\ [](fault # NoFault =>
            cer[Victim].round.tag \in {"WaitMsg1", "WaitMsg2", "Failed"})
    /\ [][(/\ fault # NoFault
           /\ fault' = fault
           /\ cer[Victim].round.tag = "WaitMsg2"
           /\ cres'[Victim] # cres[Victim]) =>
            /\ cres'[Victim].op = "handle_messages"
            /\ ~cres'[Victim].res.ok
            /\ cres'[Victim].res.err \in EngineErrors
            /\ cres'[Victim].res.msgs = {}
            /\ cer'[Victim].round.tag = "Failed"]_vars

C16_Witness ==
    /\ fault # NoFault
    /\ fault.dest # Victim
    /\ cer[Victim].round.tag = "Failed"
    /\ cres[Victim].op = "handle_messages"
    /\ cres[Victim].res.err = "MissingMessage"
    /\ cres[Victim].res.eng = "handle_msg2"

\* ---------------------------------------------------------------- C17
\* C17: combine in WaitMsg4 returns a two-component signature or an error and
\* nothing in between. It returns the signature exactly for the batch that
\* holds every peer's round-4 message for the digest of the partial signature;
\* for every other batch it fails and returns no signature, with the engine's
\* error when the batch is made of round-4 messages.
C17_CombineAllOrNothing ==
    /\ [](sess.round.tag = "WaitMsg4" =>
            \A msgs \in InboundBatches :
                LET r == CombinePartialSignature(sess, msgs).res
                    want == encode_vector(Expected(4, sess.round.partial.hash))
                IN IF msgs = want
                   THEN r.ok /\ Len(r.sig) = 2
                   ELSE /\ ~r.ok
                        /\ r.sig = <<>>
                        /\ r.msgs = {}
                        /\ decode_vector(msgs, 4).ok => r.err \in EngineErrors)
    /\ [][(last'.op = "combine" /\ sess.round.tag = "WaitMsg4") =>
            \/ last'.res.ok /\ Len(last'.res.sig) = 2
            \/ ~last'.res.ok /\ last'.res.sig = <<>>]_vars

C17_Witness ==
    /\ last.op = "combine"
    /\ sess.round.tag = "WaitMsg4"
    /\ last.res.err = "MissingMessage"
    /\ last.res.sig = <<>>

\* ---------------------------------------------------------------- C18
\* C18 as stated: over the session and the sessions restored from its
\* snapshots, a pre-signature is turned into a partial signature for at most
\* one digest.
C18_Original ==
    \A e1 \in signed, e2 \in signed :
        e1.pre = e2.pre => e1.digest = e2.digest

\* C18 amended: on any one session object a pre-signature is turned into a
\* partial signature by last_message at most once, so for one digest; a
\* session restored from a snapshot taken in Pre holds the same pre-signature
\* and its last_message can turn it into a partial signature for another
\* digest.
C18_Amended ==
    /\ \A e1 \in signed, e2 \in signed :
           (e1.pre = e2.pre /\ e1.obj = e2.obj) => e1.digest = e2.digest
    /\ sess.round.tag = "WaitMsg4" =>
           \A h \in Digests : ~LastMessage(sess, h).res.ok

C18_Witness ==
    \E e1 \in signed, e2 \in signed :
        /\ e1.pre = e2.pre
        /\ e1.obj # e2.obj
        /\ e1.digest # e2.digest

\* ---------------------------------------------------------------- C19
\* C19: error() returns the marker exactly when the round is Failed and
\* nothing otherwise, nothing in particular for a new session in Init, and
\* it changes neither the round nor the protocol state.
C19_ErrorMarker ==
    /\ [][last'.op = "error" =>
            /\ last'.res.marker = "failed" <=> sess.round.tag = "Failed"
            /\ last'.res.marker \in {"failed", ""}
            /\ sess' = sess
            /\ alive']_vars
    /\ [](sess.round.tag = "Init" => Error(sess) = "")

C19_Witness ==
    /\ last.op = "error"
    /\ last.res.marker = "failed"
    /\ sess.round.tag = "Failed"

\* ---------------------------------------------------------------- C20
\* C20: no operation returns with the round at Finished: last_message leaves
\* either WaitMsg4 or the round it found.
C20_NeverFinished ==
    /\ [](sess.round.tag # "Finished")
    /\ [][last'.op = "last_message" =>
            \/ sess'.round = sess.round
            \/ sess.round.tag = "Pre" /\ sess'.round.tag = "WaitMsg4"]_vars

C20_Witness ==
    /\ last.op = "last_message"
    /\ last.args.hash.len = 32
    /\ ~last.res.ok
    /\ sess.round.tag = "WaitMsg1"

====
